---- MODULE Spec2Model ----
(***************************************************************************)
(* Model of src/index.js: getLatestVersion (versioned-filename            *)
(* resolution), getPositionOfSubString and withTimeout.                    *)
(*                                                                         *)
(* A JavaScript string is modelled as a sequence of one-character strings, *)
(* so that startsWith, endsWith, the regular expression built by           *)
(* getVersion, parseInt and the template literals are computed character   *)
(* by character.                                                           *)
(***************************************************************************)
EXTENDS Integers, Sequences, FiniteSets, TLC

VARIABLES
    request,      \* [fileName, separator]: the arguments of getLatestVersion
    dirError,     \* "none", or the error fs.readdirSync throws for directoryPath
    dir,          \* the directory listing in readdir order (distinct names)
    promise,      \* the promise returned by the last getLatestVersion call
    settleCalls,  \* resolve/reject invocations made by that call's executor
    stage,        \* "idle" | "settled" | "written" | "resettled"
    atWrite,      \* the result record whose recommendedNextName was written
    posArgs,      \* [string, subStr, index]: arguments of getPositionOfSubString
    posResult,    \* its return value: [null |-> TRUE] or [null |-> FALSE, position |-> n]
    posStage,     \* "input" | "returned"
    given,        \* the promise handed to withTimeout: [state, value]
    timerMs,      \* the ms argument of withTimeout
    clock,        \* event-loop time in ms
    timerPromise, \* the promise made by timeout(ms)
    raced,        \* the promise returned by Promise.race
    jobs,         \* the microtask queue: reactions waiting to run
    wtStage,      \* "before" | "racing"
    firstEvent    \* which of the two events happened first: "none" | "promise" | "timer"

resolverVars == <<request, dirError, dir, promise, settleCalls, stage, atWrite>>
posVars == <<posArgs, posResult, posStage>>
timeoutVars == <<given, timerMs, clock, timerPromise, raced, jobs, wtStage, firstEvent>>
vars == <<resolverVars, posVars, timeoutVars>>

----
(* Strings *)

Digit == {"0", "1", "2", "3", "4", "5", "6", "7", "8", "9"}

DigitValue(c) ==
    CASE c = "0" -> 0 [] c = "1" -> 1 [] c = "2" -> 2 [] c = "3" -> 3
      [] c = "4" -> 4 [] c = "5" -> 5 [] c = "6" -> 6 [] c = "7" -> 7
      [] c = "8" -> 8 [] c = "9" -> 9

DigitChar(n) ==
    CASE n = 0 -> "0" [] n = 1 -> "1" [] n = 2 -> "2" [] n = 3 -> "3"
      [] n = 4 -> "4" [] n = 5 -> "5" [] n = 6 -> "6" [] n = 7 -> "7"
      [] n = 8 -> "8" [] n = 9 -> "9"

\* The characters the regular-expression "." does not match.
LineTerminator == {"\n", "\r"}

\* The character class of the three .replace calls of getVersion.
RegExpSpecial == {".", "*", "+", "?", "^", "$", "{", "}", "(", ")", "|", "[", "]", "\\"}

Max(S) == CHOOSE x \in S : \A y \in S : y <= x
Min(S) == CHOOSE x \in S : \A y \in S : x <= y

startsWith(f, p) == Len(p) <= Len(f) /\ SubSeq(f, 1, Len(p)) = p
endsWith(f, s) == Len(s) <= Len(f) /\ SubSeq(f, Len(f) - Len(s) + 1, Len(f)) = s

\* parseInt of a run of decimal digits.
RECURSIVE parseInt(_)
parseInt(ds) ==
    IF ds = << >> THEN 0
    ELSE 10 * parseInt(SubSeq(ds, 1, Len(ds) - 1)) + DigitValue(ds[Len(ds)])

\* `${n}` for a non-negative integer n.
RECURSIVE numberToString(_)
numberToString(n) ==
    IF n < 10 THEN <<DigitChar(n)>>
    ELSE numberToString(n \div 10) \o <<DigitChar(n % 10)>>

\* path.extname of a name without directory separators.
extname(name) ==
    LET dots == {i \in 1..Len(name) : name[i] = "."}
        startDot == Max(dots)
        onlyDotsBefore == \A i \in 1..(startDot - 1) : name[i] = "."
    IN  IF dots = {} THEN << >>
        ELSE IF startDot = 1 THEN << >>
        ELSE IF onlyDotsBefore /\ startDot = Len(name) /\ startDot = 2 THEN << >>
        ELSE SubSeq(name, startDot, Len(name))

\* path.basename(name, suffix) of a name without directory separators.
basename(name, suffix) ==
    IF Len(suffix) > 0 /\ Len(suffix) <= Len(name)
    THEN IF suffix = name THEN << >>
         ELSE IF endsWith(name, suffix)
              THEN SubSeq(name, 1, Len(name) - Len(suffix))
              ELSE name
    ELSE name

fileNameExtension(fileName) == extname(fileName)
fileNameWithoutExtension(fileName) == basename(fileName, fileNameExtension(fileName))

----
(* getVersion: the regular expression and its match *)

\* s.replace(/[.*+?^${}()|[\]\\]/g, '\\$&')
RECURSIVE escapeRegExp(_)
escapeRegExp(s) ==
    IF s = << >> THEN << >>
    ELSE (IF s[1] \in RegExpSpecial THEN <<"\\", s[1]>> ELSE <<s[1]>>)
         \o escapeRegExp(Tail(s))

\* The pattern source `^${head}(\d+)${tail}$`, with `.*?` before the group
\* when the separator is empty.
regexPattern(escapedFileName, escapedSeparator, escapedExtension, separator) ==
    IF separator # << >>
    THEN [head |-> escapedFileName \o escapedSeparator, lazyAny |-> FALSE,
          tail |-> escapedExtension]
    ELSE [head |-> escapedFileName, lazyAny |-> TRUE, tail |-> escapedExtension]

\* Matching a pattern fragment made of the atoms `\c` (the character c), `.`
\* (any character but a line terminator) and plain characters, from position
\* pos of input. The position after the match, or 0 when it fails.
RECURSIVE matchFragment(_, _, _)
matchFragment(frag, input, pos) ==
    IF frag = << >> THEN pos
    ELSE IF pos > Len(input) THEN 0
    ELSE IF frag[1] = "\\" /\ Len(frag) >= 2
         THEN IF input[pos] = frag[2]
              THEN matchFragment(SubSeq(frag, 3, Len(frag)), input, pos + 1)
              ELSE 0
    ELSE IF frag[1] = "."
         THEN IF input[pos] \notin LineTerminator
              THEN matchFragment(Tail(frag), input, pos + 1)
              ELSE 0
    ELSE IF input[pos] = frag[1]
         THEN matchFragment(Tail(frag), input, pos + 1)
         ELSE 0

\* The ends j of a digit run input[i..j-1] after which the tail and `$` match.
groupEnds(regex, input, i) ==
    {j \in (i + 1)..(Len(input) + 1) :
        /\ \A k \in i..(j - 1) : input[k] \in Digit
        /\ matchFragment(regex.tail, input, j) = Len(input) + 1}

\* Where the lazy `.*?` may stop: after any number of non-terminator characters.
anyEnds(regex, input, from) ==
    IF regex.lazyAny
    THEN {i \in from..(Len(input) + 1) :
             \A k \in from..(i - 1) : input[k] \notin LineTerminator}
    ELSE {from}

\* `.*?` is lazy: the backtracking matcher keeps the shortest expansion that
\* lets the rest of the pattern match.
lazyChoice(S) == Min(S)

\* `\d+` is greedy: the longest run that lets the rest match.
greedyChoice(S) == Max(S)

\* inputFileName.match(regex): [matched, group] with group = match[1].
match(regex, input) ==
    LET from == matchFragment(regex.head, input, 1)
        starts == IF from = 0 THEN {}
                  ELSE {i \in anyEnds(regex, input, from) :
                           groupEnds(regex, input, i) # {}}
    IN  IF starts = {} THEN [matched |-> FALSE, group |-> << >>]
        ELSE LET i == lazyChoice(starts)
                 j == greedyChoice(groupEnds(regex, input, i))
             IN  [matched |-> TRUE, group |-> SubSeq(input, i, j - 1)]

\* "Not found" reported as -1 instead of 0.
getVersionMinusOne(inputFileName, fileName, separator) ==
    LET ext == fileNameExtension(fileName)
        base == fileNameWithoutExtension(fileName)
        regex == regexPattern(escapeRegExp(base), escapeRegExp(separator),
                              escapeRegExp(ext), separator)
        m == match(regex, inputFileName)
    IN  IF m.matched /\ m.group # << >> THEN parseInt(m.group)
        ELSE IF inputFileName = base \o ext THEN 0
        ELSE 0 - 1

getVersion(inputFileName, fileName, separator) ==
    LET ext == fileNameExtension(fileName)
        base == fileNameWithoutExtension(fileName)
        regex == regexPattern(escapeRegExp(base), escapeRegExp(separator),
                              escapeRegExp(ext), separator)
        m == match(regex, inputFileName)
    IN  IF m.matched /\ m.group # << >> THEN parseInt(m.group)
        ELSE IF inputFileName = base \o ext THEN 0
        ELSE 0

----
(* getLatestVersion *)

\* files.filter(f => f.startsWith(base) && f.endsWith(ext))
mappingFiles(files, fileName) ==
    SelectSeq(files, LAMBDA f :
        /\ startsWith(f, fileNameWithoutExtension(fileName))
        /\ endsWith(f, fileNameExtension(fileName)))

\* A comparison turned around: the reduce keeps the smaller version.
reduceCallbackMin(a, b, fileName, separator) ==
    IF getVersion(a, fileName, separator) < getVersion(b, fileName, separator)
    THEN a ELSE b

\* A comparison with >=: the reduce keeps the earlier of two equal versions.
reduceCallbackFirst(a, b, fileName, separator) ==
    IF getVersion(a, fileName, separator) >= getVersion(b, fileName, separator)
    THEN a ELSE b

\* The callback of mappingFiles.reduce.
reduceCallback(a, b, fileName, separator) ==
    IF getVersion(a, fileName, separator) > getVersion(b, fileName, separator)
    THEN a ELSE b

\* Array.prototype.reduce without an initial value, over a non-empty array.
RECURSIVE reduce(_, _, _)
reduce(arr, fileName, separator) ==
    IF Len(arr) = 1 THEN arr[1]
    ELSE reduceCallback(reduce(SubSeq(arr, 1, Len(arr) - 1), fileName, separator),
                        arr[Len(arr)], fileName, separator)

\* The early result carrying a nextVersion like the other one.
noMatchWithNextVersion(base, separator, ext) ==
    [filename |-> << >>, version |-> 0,
     recommendedNextName |-> base \o separator \o <<"0">> \o ext,
     nextVersion |-> 0]

\* The record resolved when no entry passes the filter.
noMatch(base, separator, ext) ==
    [filename |-> << >>, version |-> 0,
     recommendedNextName |-> base \o separator \o <<"0">> \o ext]

\* The increment forgotten.
sameVersion(latestVersion) == latestVersion

nextVersionOf(latestVersion) == latestVersion + 1

\* The separator left out of the name.
recommendedNextNameNoSeparator(base, separator, nextVersion, ext) ==
    base \o numberToString(nextVersion) \o ext

recommendedNextName(base, separator, nextVersion, ext) ==
    IF separator # << >>
    THEN base \o separator \o numberToString(nextVersion) \o ext
    ELSE base \o numberToString(nextVersion) \o ext

\* The record getLatestVersion resolves with for a readable directory.
resolution(files, fileName, separator) ==
    LET ext == fileNameExtension(fileName)
        base == fileNameWithoutExtension(fileName)
        mapping == mappingFiles(files, fileName)
    IN  IF Len(mapping) = 0
        THEN noMatch(base, separator, ext)
        ELSE LET latest == reduce(mapping, fileName, separator)
                 latestVersion == getVersion(latest, fileName, separator)
                 nextVersion == nextVersionOf(latestVersion)
             IN  [filename |-> latest, version |-> latestVersion,
                  recommendedNextName |->
                      recommendedNextName(base, separator, nextVersion, ext),
                  nextVersion |-> nextVersion]

\* A promise settles on the first resolve or reject; later calls do nothing.
Pending == [state |-> "pending", value |-> [undefined |-> TRUE], reason |-> "none"]

settle(p, call) ==
    IF p.state # "pending" THEN p
    ELSE IF call.kind = "resolve"
         THEN [state |-> "fulfilled", value |-> call.value, reason |-> "none"]
         ELSE [state |-> "rejected", value |-> [undefined |-> TRUE],
               reason |-> call.reason]

RECURSIVE settleAll(_, _)
settleAll(p, calls) ==
    IF calls = << >> THEN p ELSE settleAll(settle(p, calls[1]), Tail(calls))

\* The error logged and swallowed, as getChildFileOrFolder does: resolve(null).
executorSwallow(error, files, fileName, separator) ==
    IF error # "none"
    THEN << [kind |-> "resolve", value |-> [undefined |-> TRUE]] >>
    ELSE << [kind |-> "resolve", value |-> resolution(files, fileName, separator)] >>

\* The resolve/reject invocations of one run of the executor of
\* getLatestVersion. An exception thrown by fs.readdirSync leaves the executor
\* and the Promise constructor rejects with it.
executor(error, files, fileName, separator) ==
    IF error # "none"
    THEN << [kind |-> "reject", reason |-> error] >>
    ELSE << [kind |-> "resolve", value |-> resolution(files, fileName, separator)] >>

----
(* The caller of getLatestVersion and the directory *)

MaxFiles == 2

R == <<"r">>
X == <<".", "x">>
Report == <<"r", "e", "p", "o", "r", "t">>
Xlsx == <<".", "x", "l", "s", "x">>

FileNames == {R \o X, R}
Separators == {<< >>, <<"_">>}
ReadErrors == {"ENOENT", "EACCES"}

\* Directory entries: unsuffixed, versioned with and without separator,
\* zero-padded, with the digits away from the extension, with a line
\* terminator in the name, without extension, and with another prefix.
Entries ==
    { R \o X,
      R \o <<"1">> \o X,
      R \o <<"0", "1">> \o X,
      R \o <<"_", "0">> \o X,
      R \o <<"_", "1">> \o X,
      R \o <<"_", "2">> \o X,
      R \o <<"_", "1", "0">> \o X,
      R \o <<"2", "_">> \o X,
      R \o <<"1", "_", "2">> \o X,
      R \o <<"\n", "3">> \o X,
      R,
      R \o <<"3">>,
      <<"q", "1">> \o X }

Report1 == Report \o <<"_", "1">> \o Xlsx
Report2 == Report \o <<"_", "2">> \o Xlsx
Report10 == Report \o <<"_", "1", "0">> \o Xlsx
Report11 == Report \o <<"_", "1", "1">> \o Xlsx

IsListing(files) == \A i, j \in 1..Len(files) : i # j => files[i] # files[j]

Listings(names, n) ==
    UNION {{files \in [1..k -> names] : IsListing(files)} : k \in 0..n}

insertAt(files, i, name) ==
    SubSeq(files, 1, i - 1) \o <<name>> \o SubSeq(files, i, Len(files))

ResolverIdle ==
    /\ promise = Pending
    /\ settleCalls = 0
    /\ stage = "idle"
    /\ atWrite = [undefined |-> TRUE]

ResolverIdleState ==
    /\ request = [fileName |-> R \o X, separator |-> << >>]
    /\ dirError = "none"
    /\ dir = << >>
    /\ ResolverIdle

ResolverInit ==
    /\ \/ /\ request \in [fileName : FileNames, separator : Separators]
          /\ \/ dirError = "none" /\ dir \in Listings(Entries, MaxFiles)
             \/ dirError \in ReadErrors /\ dir = << >>
       \/ /\ request = [fileName |-> Report \o Xlsx, separator |-> <<"_">>]
          /\ dirError = "none"
          /\ dir \in Listings({Report1, Report2, Report10}, 3)
          /\ Len(dir) = 3
    /\ ResolverIdle

\* One call getLatestVersion(directoryPath, fileName, separator).
GetLatestVersion ==
    /\ stage \in {"idle", "written"}
    /\ LET calls == executor(dirError, dir, request.fileName, request.separator)
       IN  /\ promise' = settleAll(Pending, calls)
           /\ settleCalls' = Len(calls)
    /\ stage' = IF stage = "idle" THEN "settled" ELSE "resettled"
    /\ UNCHANGED <<request, dirError, dir, atWrite>>

\* The caller creates a file named recommendedNextName, once, between two
\* calls with the same arguments. readdir's order is
\* platform-defined, so the new entry may show up anywhere in the listing; a
\* name that is already there is overwritten and the listing stays as it is.
WriteRecommendedNextName ==
    /\ stage = "settled"
    /\ promise.state = "fulfilled"
    /\ LET name == promise.value.recommendedNextName
       IN  IF \E i \in 1..Len(dir) : dir[i] = name
           THEN dir' = dir
           ELSE \E i \in 1..(Len(dir) + 1) : dir' = insertAt(dir, i, name)
    /\ atWrite' = promise.value
    /\ stage' = "written"
    /\ UNCHANGED <<request, dirError, promise, settleCalls>>

PosIdle ==
    /\ posArgs = [string |-> << >>, subStr |-> <<"a">>, index |-> 1]
    /\ posResult = [null |-> TRUE]
    /\ posStage = "input"

TimeoutIdle ==
    /\ given = Pending
    /\ timerMs = 0
    /\ clock = 0
    /\ timerPromise = Pending
    /\ raced = Pending
    /\ jobs = << >>
    /\ wtStage = "before"
    /\ firstEvent = "none"

Init == ResolverInit /\ PosIdle /\ TimeoutIdle

Next ==
    \/ GetLatestVersion /\ UNCHANGED <<posVars, timeoutVars>>
    \/ WriteRecommendedNextName /\ UNCHANGED <<posVars, timeoutVars>>

Spec == Init /\ [][Next]_vars

----
(* getPositionOfSubString *)

MaxString == 4
MaxSubStr == 2
MaxIndex == 3

Letters == {"a", "b"}
Strings(n) == UNION {[1..k -> Letters] : k \in 0..n}

\* The 1-based places where subStr occurs in string.
occursAt(string, subStr, i) ==
    /\ i + Len(subStr) - 1 <= Len(string)
    /\ SubSeq(string, i, i + Len(subStr) - 1) = subStr

\* string.includes(subStr)
includes(string, subStr) == \E i \in 1..(Len(string) + 1) : occursAt(string, subStr, i)

\* string.split(subStr) for a non-empty subStr: cut at the leftmost occurrence,
\* then split what follows it.
RECURSIVE split(_, _)
split(string, subStr) ==
    IF ~includes(string, subStr) THEN <<string>>
    ELSE LET i == Min({k \in 1..Len(string) : occursAt(string, subStr, k)})
         IN  <<SubSeq(string, 1, i - 1)>>
             \o split(SubSeq(string, i + Len(subStr), Len(string)), subStr)

\* The loop `for (i = 0; i < index; i++) position += parts[i].length`.
RECURSIVE partsLength(_, _)
partsLength(parts, n) ==
    IF n = 0 THEN 0 ELSE partsLength(parts, n - 1) + Len(parts[n])

Null == [null |-> TRUE]
Position(n) == [null |-> FALSE, position |-> n]

getPositionOfSubString(string, subStr, index) ==
    IF ~includes(string, subStr) THEN Null
    ELSE LET parts == split(string, subStr)
         IN  IF Len(parts) < index THEN Null
             ELSE Position(partsLength(parts, index) + (index - 1) * Len(subStr))

PosInit ==
    /\ posArgs \in [string : Strings(MaxString),
                    subStr : Strings(MaxSubStr) \ {<< >>},
                    index : 1..MaxIndex]
    /\ posResult = Null
    /\ posStage = "input"

GetPositionOfSubString ==
    /\ posStage = "input"
    /\ posResult' = getPositionOfSubString(posArgs.string, posArgs.subStr, posArgs.index)
    /\ posStage' = "returned"
    /\ UNCHANGED posArgs

PosNext == GetPositionOfSubString /\ UNCHANGED <<resolverVars, timeoutVars>>

InitPos == PosInit /\ ResolverIdleState /\ TimeoutIdle

SpecPos == InitPos /\ [][PosNext]_vars

\* The 0-based starts of the left-to-right non-overlapping occurrences of
\* subStr in string, scanning from 1-based place from.
RECURSIVE Occurrences(_, _, _)
Occurrences(string, subStr, from) ==
    LET places == {k \in from..Len(string) : occursAt(string, subStr, k)}
    IN  IF places = {} THEN << >>
        ELSE <<Min(places) - 1>>
             \o Occurrences(string, subStr, Min(places) + Len(subStr))

\* C7: for a non-empty subStr and index >= 1 the result is the 0-based start
\* of the index-th left-to-right non-overlapping occurrence of subStr when
\* string has at least index of them, and null when it has fewer.
C7_IndexthOccurrenceOrNull ==
    posStage = "returned" =>
        LET occ == Occurrences(posArgs.string, posArgs.subStr, 1)
        IN  IF Len(occ) >= posArgs.index
            THEN posResult = Position(occ[posArgs.index])
            ELSE posResult = Null

----
(* withTimeout *)

MaxMs == 2
MaxClock == 3

Values == {"v1", "v2"}
Reasons == {"failed"}
TimedOut == "Operation timed out"

\* timeout(ms) written like sleep: the timer resolves its promise.
timeoutResolves(ms) ==
    [delay |-> ms, call |-> [kind |-> "resolve", value |-> "undefined"]]

\* timeout(ms): what the timer callback does to the promise, and when.
timeout(ms) ==
    [delay |-> ms, call |-> [kind |-> "reject", reason |-> TimedOut]]

\* The reaction Promise.race registers with .then on an entry p: it passes
\* p's outcome to the resolve or reject function of the race's promise.
reaction(p) ==
    IF p.state = "fulfilled" THEN [kind |-> "resolve", value |-> p.value]
    ELSE [kind |-> "reject", reason |-> p.reason]

TimeoutInit ==
    /\ \/ given = Pending
       \/ \E v \in Values : given = [state |-> "fulfilled", value |-> v, reason |-> "none"]
       \/ \E e \in Reasons :
             given = [state |-> "rejected", value |-> [undefined |-> TRUE], reason |-> e]
    /\ timerMs \in 0..MaxMs
    /\ clock = 0
    /\ timerPromise = Pending
    /\ raced = Pending
    /\ jobs = << >>
    /\ wtStage = "before"
    /\ firstEvent = "none"

\* withTimeout(promise, ms): timeout(ms) arms the timer, Promise.race
\* subscribes to both promises. A reaction on an already settled promise is
\* queued as a microtask at once.
WithTimeout ==
    /\ wtStage = "before"
    /\ wtStage' = "racing"
    /\ timerPromise' = Pending
    /\ raced' = Pending
    /\ jobs' = IF given.state # "pending" THEN <<reaction(given)>> ELSE << >>
    /\ firstEvent' = IF given.state # "pending" THEN "promise" ELSE "none"
    /\ UNCHANGED <<given, timerMs, clock>>

\* The given promise is settled by its owner.
GivenSettles ==
    /\ wtStage = "racing"
    /\ given.state = "pending"
    /\ \/ \E v \in Values : given' = settle(given, [kind |-> "resolve", value |-> v])
       \/ \E e \in Reasons : given' = settle(given, [kind |-> "reject", reason |-> e])
    /\ jobs' = Append(jobs, reaction(given'))
    /\ firstEvent' = IF firstEvent = "none" THEN "promise" ELSE firstEvent
    /\ UNCHANGED <<timerMs, clock, timerPromise, raced, wtStage>>

\* The setTimeout callback runs: a task of the event loop, started only when
\* the delay has passed and the microtask queue is empty.
TimerFires ==
    /\ wtStage = "racing"
    /\ timerPromise.state = "pending"
    /\ clock >= timeout(timerMs).delay
    /\ jobs = << >>
    /\ timerPromise' = settle(timerPromise, timeout(timerMs).call)
    /\ jobs' = Append(jobs, reaction(timerPromise'))
    /\ firstEvent' = IF firstEvent = "none" THEN "timer" ELSE firstEvent
    /\ UNCHANGED <<given, timerMs, clock, raced, wtStage>>

\* The next microtask runs: a reaction settles the race's promise.
RunJob ==
    /\ jobs # << >>
    /\ raced' = settle(raced, Head(jobs))
    /\ jobs' = Tail(jobs)
    /\ UNCHANGED <<given, timerMs, clock, timerPromise, wtStage, firstEvent>>

Tick ==
    /\ clock < MaxClock
    /\ clock' = clock + 1
    /\ UNCHANGED <<given, timerMs, timerPromise, raced, jobs, wtStage, firstEvent>>

TimeoutNext ==
    \/ WithTimeout /\ UNCHANGED <<resolverVars, posVars>>
    \/ GivenSettles /\ UNCHANGED <<resolverVars, posVars>>
    \/ TimerFires /\ UNCHANGED <<resolverVars, posVars>>
    \/ RunJob /\ UNCHANGED <<resolverVars, posVars>>
    \/ Tick /\ UNCHANGED <<resolverVars, posVars>>

InitTimeout == TimeoutInit /\ ResolverIdleState /\ PosIdle

SpecTimeout == InitTimeout /\ [][TimeoutNext]_vars

SameOutcome(p, q) ==
    /\ p.state = q.state
    /\ p.state = "fulfilled" => p.value = q.value
    /\ p.state = "rejected" => p.reason = q.reason

\* C8: the promise returned by withTimeout settles with the outcome of the
\* event that happened first: the given promise's value or reason when it
\* settled before the timer fired, the error 'Operation timed out' when the
\* timer fired first; the later event does not change it, and it settles at
\* most once.
C8_FirstEventWins ==
    /\ [](raced.state # "pending" =>
            /\ firstEvent = "promise" => SameOutcome(raced, given)
            /\ firstEvent = "timer" =>
                  raced.state = "rejected" /\ raced.reason = TimedOut)
    /\ [][raced.state # "pending" => raced' = raced]_vars

C8_Witness ==
    /\ firstEvent = "timer"
    /\ raced.state = "rejected"
    /\ raced.reason = TimedOut
    /\ given.state = "fulfilled"
    /\ jobs = << >>


----
(* Properties of getLatestVersion *)

Base == fileNameWithoutExtension(request.fileName)
Ext == fileNameExtension(request.fileName)
Sep == request.separator
Range(f) == {f[i] : i \in 1..Len(f)}
IsCandidate(f) == startsWith(f, Base) /\ endsWith(f, Ext)
Candidates == {f \in Range(dir) : IsCandidate(f)}
VersionOf(f) == getVersion(f, request.fileName, Sep)
MaxVersion == Max({VersionOf(f) : f \in Candidates})
\* The candidates in listing order, and the places of those with the maximum.
InOrder == SelectSeq(dir, IsCandidate)
MaxPlaces == {i \in 1..Len(InOrder) : VersionOf(InOrder[i]) = MaxVersion}
MatchesPattern(f) ==
    match(regexPattern(escapeRegExp(Base), escapeRegExp(Sep), escapeRegExp(Ext), Sep),
          f).matched
\* The call has returned and the directory is as the call listed it.
Settled == stage \in {"settled", "resettled"}
Resolved == Settled /\ promise.state = "fulfilled"
Result == promise.value
Has(r, field) == field \in DOMAIN r

\* C1: with at least one candidate in the listing, version is the maximum, as
\* integers, of the candidates' extracted versions; filename is a candidate
\* with that version; nextVersion = version + 1; recommendedNextName is
\* baseName + separator + decimal(nextVersion) + extension. The listing
\* report_1.xlsx, report_2.xlsx, report_10.xlsx with separator "_" gives
\* report_10.xlsx, version 10 and report_11.xlsx.
C1_MaximumVersion ==
    (Resolved /\ Candidates # {}) =>
        /\ Result.version = MaxVersion
        /\ Result.filename \in Candidates
        /\ VersionOf(Result.filename) = MaxVersion
        /\ Has(Result, "nextVersion")
        /\ Result.nextVersion = Result.version + 1
        /\ Result.recommendedNextName
             = Base \o Sep \o numberToString(Result.nextVersion) \o Ext
        /\ (/\ request = [fileName |-> Report \o Xlsx, separator |-> <<"_">>]
            /\ Range(dir) = {Report1, Report2, Report10})
           => /\ Result.filename = Report10
              /\ Result.version = 10
              /\ Result.recommendedNextName = Report11

C1_Witness ==
    /\ Resolved
    /\ request = [fileName |-> Report \o Xlsx, separator |-> <<"_">>]
    /\ dir = <<Report10, Report2, Report1>>
    /\ Result.filename = Report10

\* C2: with no candidate in the listing, filename = "", version = 0,
\* recommendedNextName = baseName + separator + "0" + extension and there is
\* no nextVersion field; nextVersion is present exactly when a candidate existed.
C2_NoCandidate ==
    Resolved =>
        /\ Candidates = {} =>
              /\ Result.filename = << >>
              /\ Result.version = 0
              /\ Result.recommendedNextName = Base \o Sep \o <<"0">> \o Ext
        /\ Has(Result, "nextVersion") <=> Candidates # {}

C2_Witness ==
    /\ Resolved
    /\ dir # << >>
    /\ Candidates = {}
    /\ Sep # << >>
    /\ ~Has(Result, "nextVersion")

\* C3: when a call returned recommendedNextName and nextVersion, and an entry
\* of that name was then added to the directory with nothing else changed, the
\* next call with the same arguments returns version = that nextVersion.
C3_RoundTrip ==
    (Resolved /\ stage = "resettled" /\ Has(atWrite, "nextVersion")) =>
        Result.version = atWrite.nextVersion

C3_Witness ==
    /\ Resolved
    /\ stage = "resettled"
    /\ Has(atWrite, "nextVersion")
    /\ Len(dir) > 2
    /\ Sep # << >>
    /\ atWrite.nextVersion > 1
    /\ Result.filename = atWrite.recommendedNextName

\* C4 as claimed: of the candidates sharing the maximum version, filename is
\* the one that comes first in the listing.
C4_FirstSeenOnTie ==
    (Resolved /\ Cardinality(MaxPlaces) >= 2) =>
        Result.filename = InOrder[Min(MaxPlaces)]

\* C4 as amended: of the candidates sharing the maximum version, filename is
\* the one that comes last in the listing.
C4_LastSeenOnTie ==
    (Resolved /\ Cardinality(MaxPlaces) >= 2) =>
        Result.filename = InOrder[Max(MaxPlaces)]

C4_Witness ==
    /\ Resolved
    /\ Cardinality(MaxPlaces) >= 2
    /\ MaxVersion >= 1
    /\ Result.filename = InOrder[Max(MaxPlaces)]
    /\ Result.filename # InOrder[Min(MaxPlaces)]

\* C5: when the directory cannot be listed the promise is rejected with the
\* read error itself; every call settles its promise exactly once, fulfilled
\* with a result record or rejected with the read failure, never pending.
C5_SettlesOnce ==
    Settled =>
        /\ settleCalls = 1
        /\ promise.state \in {"fulfilled", "rejected"}
        /\ dirError # "none" =>
              /\ promise.state = "rejected"
              /\ promise.reason = dirError
        /\ dirError = "none" =>
              /\ promise.state = "fulfilled"
              /\ Has(promise.value, "recommendedNextName")

C5_Witness ==
    /\ stage = "settled"
    /\ dirError = "EACCES"
    /\ promise.state = "rejected"
    /\ promise.reason = "EACCES"

\* C6: a candidate that fails the version pattern has version 0 and stays in
\* the pool: when every candidate fails it, filename is an entry of the
\* listing, version = 0, nextVersion = 1 and recommendedNextName is
\* baseName + separator + "1" + extension; and such a candidate is not the
\* filename when another candidate has a version of 1 or more.
C6_UnparsableIsVersionZero ==
    (Resolved /\ Candidates # {}) =>
        /\ \A f \in Candidates : ~MatchesPattern(f) => VersionOf(f) = 0
        /\ (\A f \in Candidates : ~MatchesPattern(f)) =>
              /\ Result.filename # << >>
              /\ Result.filename \in Range(dir)
              /\ Result.version = 0
              /\ Result.nextVersion = 1
              /\ Result.recommendedNextName = Base \o Sep \o <<"1">> \o Ext
        /\ (\E f \in Candidates : VersionOf(f) >= 1) =>
              MatchesPattern(Result.filename)

C6_Witness ==
    /\ Resolved
    /\ dir = <<R \o X>>
    /\ request = [fileName |-> R \o X, separator |-> << >>]
    /\ Result.filename = R \o X
    /\ Result.nextVersion = 1

\* The version C9 describes for a candidate f: the value of the maximal run of
\* digits that ends right before the extension, within the part of the name
\* after baseName; 0 when no digit stands there.
RunStart(f) ==
    LET last == Len(f) - Len(Ext)
        first == Len(Base) + 1
    IN  Min({i \in first..(last + 1) : \A k \in i..last : f[k] \in Digit})
ClaimedVersion(f) ==
    LET last == Len(f) - Len(Ext)
    IN  IF last < Len(Base) THEN 0
        ELSE parseInt(SubSeq(f, RunStart(f), last))

\* C9: with an empty separator the version of a candidate is the value of the
\* whole run of digits ending right before the extension, after baseName,
\* whatever other characters lie between baseName and that run; 0 when no
\* digit stands directly before the extension.
C9_DigitRunBeforeExtension ==
    (Resolved /\ Sep = << >>) =>
        \A f \in Candidates : VersionOf(f) = ClaimedVersion(f)

====
